---------------------------- MODULE Spec2Model ----------------------------
(***************************************************************************)
(* Currency converter: the rate cache (storage.py), the rate fetcher       *)
(* (api_client.py) and the menu loop that drives them (cli.py).            *)
(*                                                                         *)
(* Values are Python/JSON values: None, numbers, strings and dicts.  A     *)
(* dict is a sequence of <<key, value>> pairs in insertion order.  A rate  *)
(* is a fixed-point number in hundredths (90 is 0.90).  Time is counted in *)
(* minutes.  The cache file is a sequence of JSON tokens plus its          *)
(* modification time.                                                      *)
(***************************************************************************)
EXTENDS Integers, Sequences, FiniteSets, TLC

VARIABLES
    file,     \* currency.json: [exists, text, mtime]
    now,      \* the wall clock, in minutes
    pc,       \* where main() stands: "start", "loaded", "menu", a prompt,
              \* "pause", "done"
    data,     \* main()'s local `data`, the value load_or_update_data returned
    base,     \* the base currency the running interface has read
    target,   \* the target currency the running interface has read
    session,  \* how this run's load_or_update_data went (set once, at start)
    last      \* what the last operation did: its name, inputs, outputs, calls

vars == <<file, now, pc, data, base, target, session, last>>

-----------------------------------------------------------------------------
(* Bounds of the model *)

\* The clock runs from 0 to MaxNow.
MaxNow == 1

-----------------------------------------------------------------------------
(* Python / JSON values *)

None == [k |-> "null"]
JNum(n) == [k |-> "num", n |-> n]
JStr(s) == [k |-> "str", s |-> s]
JObj(items) == [k |-> "obj", items |-> items]

IsDict(v) == v.k = "obj"

\* Python truth value: None, 0, "" and {} are false.
Truthy(v) ==
    CASE v.k = "null" -> FALSE
      [] v.k = "num" -> v.n # 0
      [] v.k = "str" -> v.s # ""
      [] v.k = "obj" -> Len(v.items) > 0

\* list(d.keys())
Keys(d) == [i \in 1..Len(d.items) |-> d.items[i][1]]

\* key in d
HasKey(d, key) == \E i \in 1..Len(d.items) : d.items[i][1] = key

\* d[key], for a key of d
Get(d, key) == d.items[CHOOSE i \in 1..Len(d.items) : d.items[i][1] = key][2]

\* d[key] = v on a list of pairs: a new key goes last, an old key keeps its place
PutItem(items, key, v) ==
    IF \E i \in 1..Len(items) : items[i][1] = key
    THEN [i \in 1..Len(items) |->
            IF items[i][1] = key THEN <<key, v>> ELSE items[i]]
    ELSE Append(items, <<key, v>>)

Put(d, key, v) == JObj(PutItem(d.items, key, v))

\* The elements of a sequence
Range(s) == {s[i] : i \in 1..Len(s)}

-----------------------------------------------------------------------------
(* json.dump and json.load, on tokens *)

Tok(t) == [t |-> t]
TStr(s) == [t |-> "str", s |-> s]
TNum(n) == [t |-> "num", n |-> n]

RECURSIVE JsonDump(_)
RECURSIVE DumpItems(_, _)
RECURSIVE DumpItems_NoSeparator(_, _)

\* the members of an object written with no comma between them
DumpItems_NoSeparator(items, i) ==
    IF i > Len(items) THEN <<>>
    ELSE <<TStr(items[i][1]), Tok(":")>>
         \o JsonDump(items[i][2])
         \o DumpItems_NoSeparator(items, i + 1)

DumpItems(items, i) ==
    IF i > Len(items) THEN <<>>
    ELSE (IF i > 1 THEN <<Tok(",")>> ELSE <<>>)
         \o <<TStr(items[i][1]), Tok(":")>>
         \o JsonDump(items[i][2])
         \o DumpItems(items, i + 1)

\* json.dump(data, file, indent=4, ensure_ascii=False): the tokens written
JsonDump(v) ==
    CASE v.k = "null" -> <<Tok("null")>>
      [] v.k = "num" -> <<TNum(v.n)>>
      [] v.k = "str" -> <<TStr(v.s)>>
      [] v.k = "obj" -> <<Tok("{")>> \o DumpItems(v.items, 1) \o <<Tok("}")>>

ParseFail == [ok |-> FALSE]
Parsed(v, next) == [ok |-> TRUE, val |-> v, next |-> next]

RECURSIVE ParseValue(_, _)
RECURSIVE ParseMembers(_, _, _)

\* the members of an object, from the token after "{" or ","
ParseMembers(toks, i, acc) ==
    IF i + 1 > Len(toks) \/ toks[i].t # "str" \/ toks[i + 1].t # ":"
    THEN ParseFail
    ELSE LET r == ParseValue(toks, i + 2) IN
         IF ~r.ok \/ r.next > Len(toks) THEN ParseFail
         ELSE LET acc2 == PutItem(acc, toks[i].s, r.val) IN
              CASE toks[r.next].t = "," -> ParseMembers(toks, r.next + 1, acc2)
                [] toks[r.next].t = "}" -> Parsed(JObj(acc2), r.next + 1)
                [] OTHER -> ParseFail

ParseValue(toks, i) ==
    IF i > Len(toks) THEN ParseFail
    ELSE CASE toks[i].t = "null" -> Parsed(None, i + 1)
           [] toks[i].t = "num" -> Parsed(JNum(toks[i].n), i + 1)
           [] toks[i].t = "str" -> Parsed(JStr(toks[i].s), i + 1)
           [] toks[i].t = "{" ->
                IF i + 1 <= Len(toks) /\ toks[i + 1].t = "}"
                THEN Parsed(JObj(<<>>), i + 2)
                ELSE ParseMembers(toks, i + 1, <<>>)
           [] OTHER -> ParseFail

\* json.load(file): the value, or JSONDecodeError (ok = FALSE)
JsonLoad(toks) ==
    LET r == ParseValue(toks, 1) IN
    IF r.ok /\ r.next = Len(toks) + 1 THEN r ELSE ParseFail

-----------------------------------------------------------------------------
(* api_client.py *)

FAVORITE_CURRENCIES == <<"USD", "EUR", "GBP", "RUB">>

\* The rate table the provider holds for a base currency.  Bases differ in
\* their targets, as tables fetched at different times may.
ProviderRates(currency_code) ==
    CASE currency_code = "USD" ->
            JObj(<< <<"USD", JNum(100)>>, <<"EUR", JNum(90)>>,
                    <<"RUB", JNum(9500)>> >>)
      [] currency_code = "EUR" ->
            JObj(<< <<"EUR", JNum(100)>>, <<"USD", JNum(111)>>,
                    <<"GBP", JNum(85)>> >>)
      [] currency_code = "GBP" ->
            JObj(<< <<"GBP", JNum(100)>>, <<"USD", JNum(130)>> >>)
      [] OTHER ->
            JObj(<< <<currency_code, JNum(100)>>, <<"USD", JNum(1)>>,
                    <<"JPY", JNum(160)>> >>)

\* What requests.get(URL, timeout=10) can do
ResponseKinds == {"ok", "http_error", "api_error", "network_error"}

\* The reply to GET /v6/latest/<currency_code> at time t
Response(currency_code, kind, t) ==
    CASE kind = "ok" ->
            [raised |-> FALSE, status_code |-> 200,
             json |-> JObj(<< <<"result", JStr("success")>>,
                              <<"time_last_update_unix", JNum(t)>>,
                              <<"rates", ProviderRates(currency_code)>> >>)]
      [] kind = "http_error" ->
            [raised |-> FALSE, status_code |-> 500, json |-> None]
      [] kind = "api_error" ->
            [raised |-> FALSE, status_code |-> 200,
             json |-> JObj(<< <<"result", JStr("error")>>,
                              <<"error-type", JStr("unsupported-code")>> >>)]
      [] OTHER ->
            [raised |-> TRUE, status_code |-> 0, json |-> None]

\* get_currency_rate that does not look at the provider's result field
GetCurrencyRate_NoResultCheck(response) ==
    IF response.raised THEN None
    ELSE IF response.status_code # 200 THEN None
    ELSE response.json

\* get_currency_rate, given the reply of requests.get
GetCurrencyRate(response) ==
    IF response.raised THEN None
    ELSE IF response.status_code # 200 THEN None
    ELSE IF ~IsDict(response.json) THEN None
    ELSE IF ~HasKey(response.json, "result") THEN None
    ELSE IF Get(response.json, "result") # JStr("success") THEN None
    ELSE response.json

RECURSIVE UpdateLoop_RetryOnce(_, _, _, _, _, _)

\* the loop, calling get_currency_rate a second time after a failure
UpdateLoop_RetryOnce(i, all_data, success_count, calls, kinds, t) ==
    IF i > Len(FAVORITE_CURRENCIES)
    THEN [all_data |-> all_data, success_count |-> success_count,
          calls |-> calls]
    ELSE LET currency == FAVORITE_CURRENCIES[i]
             rate_data == GetCurrencyRate(Response(currency, kinds[currency], t))
         IN  IF Truthy(rate_data)
             THEN UpdateLoop_RetryOnce(i + 1, Put(all_data, currency, rate_data),
                                       success_count + 1,
                                       Append(calls, currency), kinds, t)
             ELSE UpdateLoop_RetryOnce(i + 1, all_data, success_count,
                                       Append(Append(calls, currency), currency),
                                       kinds, t)

RECURSIVE UpdateLoop(_, _, _, _, _, _)

\* the for loop of update_currency_rates from position i; calls lists the
\* arguments get_currency_rate was called with, in order
UpdateLoop(i, all_data, success_count, calls, kinds, t) ==
    IF i > Len(FAVORITE_CURRENCIES)
    THEN [all_data |-> all_data, success_count |-> success_count,
          calls |-> calls]
    ELSE LET currency == FAVORITE_CURRENCIES[i]
             rate_data == GetCurrencyRate(Response(currency, kinds[currency], t))
         IN  IF Truthy(rate_data)
             THEN UpdateLoop(i + 1, Put(all_data, currency, rate_data),
                             success_count + 1, Append(calls, currency), kinds, t)
             ELSE UpdateLoop(i + 1, all_data, success_count,
                             Append(calls, currency), kinds, t)

\* update_currency_rates(), when the provider answers by kinds at time t
UpdateCurrencyRates(kinds, t) == UpdateLoop(1, JObj(<<>>), 0, <<>>, kinds, t)

-----------------------------------------------------------------------------
(* storage.py *)

HOURS == 24
MinutesPerHour == 60

NoFile == [exists |-> FALSE, text |-> <<>>, mtime |-> 0]

\* How open(filename, 'w') / json.dump can end: "none" (no error), "open"
\* (open raises, nothing is touched), "write" (open has truncated the file
\* and the error comes when half of the tokens are written).
SaveFaults == {"none", "open", "write"}

\* save_to_file(data, filename) at time t: the file afterwards.  Every
\* exception is caught and printed.
SaveToFile(d, f, t, fault) ==
    LET text == JsonDump(d) IN
    CASE fault = "none" -> [exists |-> TRUE, text |-> text, mtime |-> t]
      [] fault = "open" -> f
      [] OTHER -> [exists |-> TRUE,
                   text |-> SubSeq(text, 1, Len(text) \div 2), mtime |-> t]

\* read_from_file that opens the file for writing
FileAfterRead_Truncates(f) ==
    IF f.exists THEN [f EXCEPT !.text = <<>>] ELSE [f EXCEPT !.exists = TRUE]

\* The file after read_from_file(filename): open(filename, 'r') and
\* json.load leave it as it is
FileAfterRead(f) == f

\* read_from_file(filename): the parsed value, or None on FileNotFoundError,
\* JSONDecodeError or any other exception (fault)
ReadFromFile(f, fault) ==
    IF ~f.exists THEN None
    ELSE IF fault THEN None
    ELSE LET r == JsonLoad(f.text) IN
         IF r.ok THEN r.val ELSE None

\* is_file_recent with <= for <
IsFileRecent_Inclusive(f, hours, t, fault) ==
    IF ~f.exists THEN FALSE
    ELSE IF fault THEN FALSE
    ELSE t - f.mtime <= hours * MinutesPerHour

\* is_file_recent(file_path, hours) at time t; fault: os.path.getmtime raises
IsFileRecent(f, hours, t, fault) ==
    IF ~f.exists THEN FALSE
    ELSE IF fault THEN FALSE
    ELSE t - f.mtime < hours * MinutesPerHour

\* get_available_currencies that takes the base inserted last
GetAvailableCurrencies_LastBase(d) ==
    IF ~Truthy(d) THEN <<>>
    ELSE IF ~IsDict(d) THEN <<>>
    ELSE LET last_base == Keys(d)[Len(d.items)]
             entry == Get(d, last_base)
         IN  IF ~IsDict(entry) THEN <<>>
             ELSE IF ~HasKey(entry, "rates") THEN <<>>
             ELSE IF ~IsDict(Get(entry, "rates")) THEN <<>>
             ELSE Keys(Get(entry, "rates"))

\* get_available_currencies(), d being what read_from_file() returned
GetAvailableCurrencies(d) ==
    IF ~Truthy(d) THEN <<>>
    ELSE IF ~IsDict(d) THEN <<>>
    ELSE LET first_base == Keys(d)[1]
             entry == Get(d, first_base)
         IN  IF ~IsDict(entry) THEN <<>>
             ELSE IF ~HasKey(entry, "rates") THEN <<>>
             ELSE IF ~IsDict(Get(entry, "rates")) THEN <<>>
             ELSE Keys(Get(entry, "rates"))

Failure(tag) == [rate |-> None, error |-> JStr(tag)]

\* get_exchange_rate that looks the target up among the bases
GetExchangeRate_TargetAmongBases(d, base_currency, target_currency) ==
    IF ~Truthy(d) THEN Failure("BaseNotFound")
    ELSE IF ~IsDict(d) THEN Failure("LookupError")
    ELSE IF ~HasKey(d, base_currency) THEN Failure("BaseNotFound")
    ELSE LET entry == Get(d, base_currency) IN
         IF ~IsDict(entry) THEN Failure("LookupError")
         ELSE IF ~HasKey(entry, "rates") THEN Failure("LookupError")
         ELSE LET rates == Get(entry, "rates") IN
              IF ~IsDict(rates) THEN Failure("LookupError")
              ELSE IF ~HasKey(d, target_currency) \/ ~HasKey(rates, target_currency)
                   THEN Failure("TargetNotFound")
                   ELSE [rate |-> Get(rates, target_currency), error |-> None]

\* get_exchange_rate(base_currency, target_currency), d being what
\* read_from_file() returned: the pair (rate, error).  Any exception ends in
\* the except branch ("LookupError").  The files of the model hold a JSON
\* object or do not parse, so d is a dict or None.
GetExchangeRate(d, base_currency, target_currency) ==
    IF ~Truthy(d) THEN Failure("BaseNotFound")
    ELSE IF ~IsDict(d) THEN Failure("LookupError")
    ELSE IF ~HasKey(d, base_currency) THEN Failure("BaseNotFound")
    ELSE LET entry == Get(d, base_currency) IN
         IF ~IsDict(entry) THEN Failure("LookupError")
         ELSE IF ~HasKey(entry, "rates") THEN Failure("LookupError")
         ELSE LET rates == Get(entry, "rates") IN
              IF ~IsDict(rates) THEN Failure("LookupError")
              ELSE IF ~HasKey(rates, target_currency)
                   THEN Failure("TargetNotFound")
                   ELSE [rate |-> Get(rates, target_currency), error |-> None]

\* convert_currency that returns the amount whether or not the rate was found
ConvertCurrency_IgnoresError(d, amount, base_currency, target_currency) ==
    LET r == GetExchangeRate(d, base_currency, target_currency) IN
    IF Truthy(r.error) THEN [converted_amount |-> JNum(amount), error |-> None]
    ELSE [converted_amount |-> JNum(amount + r.rate.n), error |-> None]

\* convert_currency(amount, base_currency, target_currency): the pair
\* (converted_amount, error); amounts are in units, the product in hundredths
ConvertCurrency(d, amount, base_currency, target_currency) ==
    LET r == GetExchangeRate(d, base_currency, target_currency) IN
    IF Truthy(r.error) THEN [converted_amount |-> None, error |-> r.error]
    ELSE [converted_amount |-> JNum(amount * r.rate.n), error |-> None]

\* load_or_update_data that refreshes whatever the file holds
LoadOrUpdateData_AlwaysRefresh(f, t, statFault, readFault, kinds, saveFault) ==
    LET recent == IsFileRecent(f, HOURS, t, statFault)
        u == UpdateCurrencyRates(kinds, t)
    IN  IF Truthy(u.all_data)
        THEN [ret |-> u.all_data,
              file |-> SaveToFile(u.all_data, f, t, saveFault),
              calls |-> u.calls,
              recent |-> recent, refreshed |-> TRUE, saved |-> saveFault]
        ELSE [ret |-> None, file |-> f, calls |-> u.calls,
              recent |-> recent, refreshed |-> TRUE, saved |-> "no_save"]

\* load_or_update_data that saves whatever update_currency_rates returned
LoadOrUpdateData_SaveAlways(f, t, statFault, readFault, kinds, saveFault) ==
    LET recent == IsFileRecent(f, HOURS, t, statFault)
        d == ReadFromFile(f, readFault)
        u == UpdateCurrencyRates(kinds, t)
    IN  IF recent /\ Truthy(d)
        THEN [ret |-> d, file |-> f, calls |-> <<>>,
              recent |-> recent, refreshed |-> FALSE, saved |-> "no_save"]
        ELSE [ret |-> IF Truthy(u.all_data) THEN u.all_data ELSE None,
              file |-> SaveToFile(u.all_data, f, t, saveFault),
              calls |-> u.calls,
              recent |-> recent, refreshed |-> TRUE, saved |-> saveFault]

\* load_or_update_data that gives up when the recent file cannot be read
LoadOrUpdateData_NoFallThrough(f, t, statFault, readFault, kinds, saveFault) ==
    LET recent == IsFileRecent(f, HOURS, t, statFault)
        d == ReadFromFile(f, readFault)
        u == UpdateCurrencyRates(kinds, t)
    IN  IF recent
        THEN [ret |-> IF Truthy(d) THEN d ELSE None, file |-> f, calls |-> <<>>,
              recent |-> recent, refreshed |-> FALSE, saved |-> "no_save"]
        ELSE IF Truthy(u.all_data)
        THEN [ret |-> u.all_data,
              file |-> SaveToFile(u.all_data, f, t, saveFault),
              calls |-> u.calls,
              recent |-> recent, refreshed |-> TRUE, saved |-> saveFault]
        ELSE [ret |-> None, file |-> f, calls |-> u.calls,
              recent |-> recent, refreshed |-> TRUE, saved |-> "no_save"]

\* load_or_update_data(filename) at time t.  statFault, readFault and
\* saveFault are the file system's faults, kinds the provider's answers.
\* Yields the value returned, the file afterwards and the fetcher calls made.
LoadOrUpdateData(f, t, statFault, readFault, kinds, saveFault) ==
    LET recent == IsFileRecent(f, HOURS, t, statFault)
        d == ReadFromFile(f, readFault)
        u == UpdateCurrencyRates(kinds, t)
    IN  IF recent /\ Truthy(d)
        THEN [ret |-> d, file |-> f, calls |-> <<>>,
              recent |-> recent, refreshed |-> FALSE, saved |-> "no_save"]
        ELSE IF Truthy(u.all_data)
        THEN [ret |-> u.all_data,
              file |-> SaveToFile(u.all_data, f, t, saveFault),
              calls |-> u.calls,
              recent |-> recent, refreshed |-> TRUE, saved |-> saveFault]
        ELSE [ret |-> None, file |-> f, calls |-> u.calls,
              recent |-> recent, refreshed |-> TRUE, saved |-> "no_save"]

-----------------------------------------------------------------------------
(* The cache file before the program starts *)

\* The provider answers the currencies of S, and fails the others by failure
OnlyOk(S, failure) ==
    [c \in Range(FAVORITE_CURRENCIES) |-> IF c \in S THEN "ok" ELSE failure]

AllOk == OnlyOk(Range(FAVORITE_CURRENCIES), "network_error")

\* The provider's answers during one refresh: any set of currencies may
\* fail, all in the same way
AllKinds ==
    { OnlyOk(S, failure) :
        S \in SUBSET Range(FAVORITE_CURRENCIES),
        failure \in ResponseKinds \ {"ok"} }

\* The currencies whose fetch succeeds under kinds
OkSet(kinds) == {c \in Range(FAVORITE_CURRENCIES) : kinds[c] = "ok"}

\* What an earlier run, or an editor, may have left in the file: a cut-off
\* text, an empty object, a full snapshot, a snapshot of two bases, and an
\* entry with no rate table.
InitTexts(t) ==
    { <<Tok("{"), TStr("USD")>>,
      JsonDump(JObj(<<>>)),
      JsonDump(UpdateCurrencyRates(AllOk, t).all_data),
      JsonDump(UpdateCurrencyRates(OnlyOk({"EUR", "RUB"}, "api_error"), t).all_data),
      JsonDump(JObj(<< <<"USD", JObj(<< <<"result", JStr("success")>> >>)>> >>)) }

\* Ages of the file at time 0: a minute less than HOURS hours, and exactly
\* HOURS hours
InitAges == { HOURS * MinutesPerHour - 1, HOURS * MinutesPerHour }

FilesOfAge(age) ==
    { [exists |-> TRUE, text |-> txt, mtime |-> 0 - age] :
        txt \in InitTexts(0 - age) }

InitFiles == {NoFile} \cup UNION {FilesOfAge(age) : age \in InitAges}

-----------------------------------------------------------------------------
(* cli.py *)

\* What the user may type at a currency prompt
CurrencyInputs == {"", "usd", "EUR", "GBP", "RUB", "JPY"}

\* What the user may type at the search prompt
SearchInputs == {"", "UR", "ur", "U", "XYZ"}

\* input(prompt).strip(), with no upper()
StripUpper_NoUpper(inp) == inp

\* input(prompt).strip().upper()
StripUpper(inp) ==
    CASE inp = "usd" -> "USD"
      [] inp = "ur" -> "UR"
      [] OTHER -> inp

\* The characters of the strings the model uses
Chars(str) ==
    CASE str = "USD" -> <<"U", "S", "D">>
      [] str = "EUR" -> <<"E", "U", "R">>
      [] str = "GBP" -> <<"G", "B", "P">>
      [] str = "RUB" -> <<"R", "U", "B">>
      [] str = "JPY" -> <<"J", "P", "Y">>
      [] str = "XYZ" -> <<"X", "Y", "Z">>
      [] str = "UR" -> <<"U", "R">>
      [] str = "ur" -> <<"u", "r">>
      [] str = "U" -> <<"U">>
      [] OTHER -> <<>>

Alphabet ==
    <<"A", "B", "C", "D", "E", "F", "G", "H", "I", "J", "K", "L", "M",
      "N", "O", "P", "Q", "R", "S", "T", "U", "V", "W", "X", "Y", "Z">>

\* The code point of a character, as far as the order goes: capitals in
\* alphabetical order, small letters after them
Ord(ch) ==
    IF ch \in Range(Alphabet)
    THEN CHOOSE i \in 1..Len(Alphabet) : Alphabet[i] = ch
    ELSE Len(Alphabet) + 1

\* sub in str, on strings
Contains(sub, str) ==
    LET a == Chars(sub)
        b == Chars(str)
    IN  \E i \in 0..Len(b) :
            i + Len(a) <= Len(b) /\ SubSeq(b, i + 1, i + Len(a)) = a

\* x < y, on strings
StrLess(x, y) ==
    LET a == Chars(x)
        b == Chars(y)
    IN  \E i \in 1..(Len(b)) :
            /\ \A j \in 1..(i - 1) : j <= Len(a) /\ a[j] = b[j]
            /\ \/ i = Len(a) + 1
               \/ i <= Len(a) /\ Ord(a[i]) < Ord(b[i])

RECURSIVE Sorted(_)

\* sorted(found)
Sorted(found) ==
    IF Len(found) = 0 THEN <<>>
    ELSE LET least == CHOOSE i \in 1..Len(found) :
                          \A j \in 1..Len(found) :
                              j = i \/ ~StrLess(found[j], found[i])
             rest == [k \in 1..(Len(found) - 1) |->
                         IF k < least THEN found[k] ELSE found[k + 1]]
         IN  <<found[least]>> \o Sorted(rest)

\* What the user may type at the amount prompt
AmountInputs == {"abc", "-5", "0", "2", "100"}

\* float(s): the number, or ValueError (ok = FALSE)
ParseFloat(inp) ==
    CASE inp = "-5" -> [ok |-> TRUE, val |-> 0 - 5]
      [] inp = "0" -> [ok |-> TRUE, val |-> 0]
      [] inp = "2" -> [ok |-> TRUE, val |-> 2]
      [] inp = "100" -> [ok |-> TRUE, val |-> 100]
      [] OTHER -> [ok |-> FALSE, val |-> 0]

Init ==
    /\ file \in InitFiles
    /\ now = 0
    /\ pc = "start"
    /\ data = None
    /\ base = ""
    /\ target = ""
    /\ session = [refreshed |-> FALSE, saved |-> "no_save"]
    /\ last = [op |-> "init"]

\* The clock advances.
Tick ==
    /\ now < MaxNow
    /\ now' = now + 1
    /\ UNCHANGED <<file, pc, data, base, target, session, last>>

\* main(): data = load_or_update_data()
Start ==
    /\ pc = "start"
    /\ \E statFault \in BOOLEAN, readFault \in BOOLEAN,
          kinds \in AllKinds, saveFault \in SaveFaults :
          LET r == LoadOrUpdateData(file, now, statFault, readFault,
                                    kinds, saveFault)
          IN  /\ file' = r.file
              /\ data' = r.ret
              /\ session' = [refreshed |-> r.refreshed, saved |-> r.saved]
              /\ last' = [op |-> "load_or_update_data", before |-> file,
                          at |-> now, statFault |-> statFault,
                          readFault |-> readFault, recent |-> r.recent,
                          ok |-> IF r.refreshed THEN OkSet(kinds) ELSE {},
                          calls |-> r.calls, ret |-> r.ret]
    /\ pc' = "loaded"
    /\ UNCHANGED <<now, base, target>>

\* main(): the message of the limited mode if data is None, then the first
\* show_menu()
EnterMenu ==
    /\ pc = "loaded"
    /\ pc' = "menu"
    /\ last' = [op |-> "show_menu"]
    /\ UNCHANGED <<file, now, data, base, target, session>>

\* choice == "0"
Quit ==
    /\ pc = "menu"
    /\ pc' = "done"
    /\ last' = [op |-> "quit"]
    /\ UNCHANGED <<file, now, data, base, target, session>>

\* choice == "1": currency_conversion_interface() up to its first prompt
ChooseConvert ==
    /\ pc = "menu"
    /\ pc' = "conv_base"
    /\ last' = [op |-> "choice", choice |-> "1"]
    /\ UNCHANGED <<file, now, data, base, target, session>>

\* choice == "2": exchange_rate_interface() up to its first prompt
ChooseRate ==
    /\ pc = "menu"
    /\ pc' = "rate_base"
    /\ last' = [op |-> "choice", choice |-> "2"]
    /\ UNCHANGED <<file, now, data, base, target, session>>

\* choice == "3": display_available_currencies()
DisplayAvailableCurrencies ==
    /\ pc = "menu"
    /\ pc' = "pause"
    /\ \E readFault \in BOOLEAN :
          last' = [op |-> "display_available_currencies",
                   currencies |->
                       GetAvailableCurrencies(ReadFromFile(file, readFault))]
    /\ file' = FileAfterRead(file)
    /\ UNCHANGED <<now, data, base, target, session>>

\* choice == "4": update_currency_rates(), its result dropped, then the
\* message that the data was updated
ForceRefresh ==
    /\ pc = "menu"
    /\ pc' = "pause"
    /\ \E kinds \in AllKinds :
          LET u == UpdateCurrencyRates(kinds, now) IN
          last' = [op |-> "force_refresh", before |-> file,
                   ok |-> OkSet(kinds), calls |-> u.calls,
                   all_data |-> u.all_data, printed |-> "updated"]
    /\ UNCHANGED <<file, now, data, base, target, session>>

\* search_currency_interface(), given what the user typed and what
\* get_available_currencies() returned: the codes printed, in order
SearchCurrencyInterface(available, inp) ==
    LET search_term == StripUpper(inp)
        found == SelectSeq(available,
                           LAMBDA currency : Contains(search_term, currency))
    IN  Sorted(found)

\* choice == "5": search_currency_interface()
SearchCurrency ==
    /\ pc = "menu"
    /\ pc' = "pause"
    /\ \E inp \in SearchInputs, readFault \in BOOLEAN :
          LET available == GetAvailableCurrencies(ReadFromFile(file, readFault))
          IN  last' = [op |-> "search_currency", input |-> inp,
                       search_term |-> StripUpper(inp),
                       available |-> available,
                       printed |-> SearchCurrencyInterface(available, inp)]
    /\ file' = FileAfterRead(file)
    /\ UNCHANGED <<now, data, base, target, session>>

\* any other choice
InvalidChoice ==
    /\ pc = "menu"
    /\ pc' = "pause"
    /\ last' = [op |-> "invalid_choice"]
    /\ UNCHANGED <<file, now, data, base, target, session>>

\* One round of get_valid_currency's loop at a prompt for the base currency
PromptBase ==
    /\ pc \in {"conv_base", "rate_base"}
    /\ \E readFault \in BOOLEAN :
          LET available == GetAvailableCurrencies(ReadFromFile(file, readFault)) IN
          \E inp \in CurrencyInputs :
          LET currency == StripUpper(inp)
          IN  IF currency # "" /\ currency \in Range(available)
              THEN /\ base' = currency
                   /\ pc' = IF pc = "conv_base" THEN "conv_target"
                                                ELSE "rate_target"
                   /\ last' = [op |-> "get_valid_currency", accepted |-> TRUE]
              ELSE /\ last' = [op |-> "get_valid_currency", accepted |-> FALSE]
                   /\ UNCHANGED <<base, pc>>
    /\ file' = FileAfterRead(file)
    /\ UNCHANGED <<now, data, target, session>>

\* One round of get_valid_currency's loop at the target prompt of
\* exchange_rate_interface; once a code is accepted, get_exchange_rate runs
\* and main() goes on to its pause
PromptRateTarget ==
    /\ pc = "rate_target"
    /\ \E readFault \in BOOLEAN, readFault2 \in BOOLEAN :
          LET available == GetAvailableCurrencies(ReadFromFile(file, readFault)) IN
          \E inp \in CurrencyInputs :
          LET currency == StripUpper(inp)
          IN  IF currency # "" /\ currency \in Range(available)
              THEN /\ pc' = "pause"
                   /\ base' = ""
                   /\ last' = [op |-> "get_exchange_rate",
                               base |-> base, target |-> currency,
                               ret |-> GetExchangeRate(
                                          ReadFromFile(file, readFault2),
                                          base, currency)]
              ELSE /\ last' = [op |-> "get_valid_currency", accepted |-> FALSE]
                   /\ UNCHANGED <<base, pc>>
    /\ file' = FileAfterRead(file)
    /\ UNCHANGED <<now, data, target, session>>

\* One round of get_valid_currency's loop at the target prompt of
\* currency_conversion_interface
PromptConvTarget ==
    /\ pc = "conv_target"
    /\ \E readFault \in BOOLEAN :
          LET available == GetAvailableCurrencies(ReadFromFile(file, readFault)) IN
          \E inp \in CurrencyInputs :
          LET currency == StripUpper(inp)
          IN  IF currency # "" /\ currency \in Range(available)
              THEN /\ target' = currency
                   /\ pc' = "conv_amount"
                   /\ last' = [op |-> "get_valid_currency", accepted |-> TRUE]
              ELSE /\ last' = [op |-> "get_valid_currency", accepted |-> FALSE]
                   /\ UNCHANGED <<target, pc>>
    /\ file' = FileAfterRead(file)
    /\ UNCHANGED <<now, data, base, session>>

\* One round of get_valid_amount's loop; once an amount is accepted,
\* convert_currency runs and main() goes on to its pause
PromptAmount ==
    /\ pc = "conv_amount"
    /\ \E inp \in AmountInputs, readFault \in BOOLEAN, readFault2 \in BOOLEAN :
          LET amount == ParseFloat(inp)
              converted == ConvertCurrency(ReadFromFile(file, readFault),
                                           amount.val, base, target)
              reverse == GetExchangeRate(ReadFromFile(file, readFault2),
                                         target, base)
          IN
          IF amount.ok /\ amount.val > 0
          THEN /\ pc' = "pause"
               /\ base' = ""
               /\ target' = ""
               /\ last' = [op |-> "convert_currency", amount |-> amount.val,
                           base |-> base, target |-> target,
                           ret |-> converted,
                           reverse_rate |->
                               IF Truthy(converted.error) THEN None
                               ELSE reverse.rate]
          ELSE /\ last' = [op |-> "get_valid_amount", accepted |-> FALSE]
               /\ UNCHANGED <<base, target, pc>>
    /\ file' = FileAfterRead(file)
    /\ UNCHANGED <<now, data, session>>

\* input("Press Enter to continue"), then show_menu() again
Continue ==
    /\ pc = "pause"
    /\ pc' = "menu"
    /\ last' = [op |-> "show_menu"]
    /\ UNCHANGED <<file, now, data, base, target, session>>

Next ==
    \/ Tick
    \/ Start
    \/ EnterMenu
    \/ Quit
    \/ ChooseConvert
    \/ ChooseRate
    \/ DisplayAvailableCurrencies
    \/ ForceRefresh
    \/ SearchCurrency
    \/ InvalidChoice
    \/ PromptBase
    \/ PromptRateTarget
    \/ PromptConvTarget
    \/ PromptAmount
    \/ Continue

Spec == Init /\ [][Next]_vars

-----------------------------------------------------------------------------
(* Definitions the properties are stated with *)

\* A snapshot of the data model: a dict whose entries each hold a rate table
\* of positive numbers
ValidSnapshot(v) ==
    /\ IsDict(v)
    /\ \A i \in 1..Len(v.items) :
          LET entry == v.items[i][2] IN
          /\ IsDict(entry)
          /\ HasKey(entry, "rates")
          /\ IsDict(Get(entry, "rates"))
          /\ \A j \in 1..Len(Get(entry, "rates").items) :
                LET x == Get(entry, "rates").items[j][2] IN
                x.k = "num" /\ x.n > 0

\* The snapshot of the currencies of S, each with the table fetched at t
SnapshotOf(S, t) ==
    LET fetched == SelectSeq(FAVORITE_CURRENCIES, LAMBDA c : c \in S) IN
    JObj([i \in 1..Len(fetched) |->
            <<fetched[i], Response(fetched[i], "ok", t).json>>])

\* load_or_update_data has just returned
Loaded == last.op = "load_or_update_data"

\* ... and had found a recent file that parses to v
LoadedRecent(v) ==
    /\ Loaded
    /\ last.recent
    /\ ~last.readFault
    /\ JsonLoad(last.before.text).ok
    /\ JsonLoad(last.before.text).val = v

\* The files that parse, before the program starts
ParsedInitFiles ==
    { JsonLoad(f.text).val : f \in {g \in InitFiles : JsonLoad(g.text).ok} }

-----------------------------------------------------------------------------
(* C1 *)

\* C1 as stated: load_or_update_data on a recent file that parses to a valid
\* snapshot makes no fetcher call, returns the parsed snapshot and leaves the
\* file as it was.
C1_AsStated ==
    \A v \in ParsedInitFiles :
        (LoadedRecent(v) /\ ValidSnapshot(v))
            => /\ last.calls = <<>>
               /\ last.ret = v
               /\ file = last.before

\* C1, amended: load_or_update_data on a recent file that parses to a valid,
\* non-empty snapshot makes no fetcher call, returns the parsed snapshot and
\* leaves the file as it was.
C1_RecentValidFileIsReturned ==
    \A v \in ParsedInitFiles :
        (LoadedRecent(v) /\ ValidSnapshot(v) /\ Len(v.items) > 0)
            => /\ last.calls = <<>>
               /\ last.ret = v
               /\ data = v
               /\ file = last.before

C1_Witness ==
    \E v \in ParsedInitFiles :
        /\ LoadedRecent(v) /\ ValidSnapshot(v) /\ Len(v.items) > 0
        /\ last.calls = <<>>
        /\ data = v

-----------------------------------------------------------------------------
(* C2 *)

\* C2 as stated: after the force-refresh action with at least one successful
\* fetch, the cache file holds the snapshot just fetched, whatever the age of
\* the file was.
C2_AsStated ==
    (last.op = "force_refresh" /\ last.ok # {})
        => /\ last.all_data = SnapshotOf(last.ok, now)
           /\ file.exists
           /\ file.text = JsonDump(last.all_data)

-----------------------------------------------------------------------------
(* C3 *)

\* C3 as stated: after load_or_update_data the cache file is what it was
\* before (absent included), or the complete snapshot that was to be saved;
\* a save that fails leaves the earlier content.
C3_AsStated ==
    Loaded
        => \/ file = last.before
           \/ /\ file.exists
              /\ Truthy(last.ret)
              /\ file.text = JsonDump(last.ret)

-----------------------------------------------------------------------------
(* C4 *)

\* The refresh of this run fetched a snapshot and its save failed
SaveFailed ==
    /\ session.refreshed
    /\ session.saved \in SaveFaults \ {"none"}
    /\ Truthy(data)

\* C4 as stated: when the refresh fetched a snapshot S and the save failed,
\* every rate, conversion and list of currencies of the session is the one
\* computed from S.
C4_AsStated ==
    SaveFailed
        => /\ last.op = "display_available_currencies"
                => last.currencies = GetAvailableCurrencies(data)
           /\ last.op = "get_exchange_rate"
                => last.ret = GetExchangeRate(data, last.base, last.target)
           /\ last.op = "convert_currency"
                => last.ret = ConvertCurrency(data, last.amount,
                                              last.base, last.target)

-----------------------------------------------------------------------------
(* C5 *)

\* load_or_update_data has just returned from its refresh step
Refreshed == Loaded /\ last.calls # <<>>

\* C5 as stated: a refresh returns the snapshot of exactly the currencies
\* whose fetch succeeded, each with its fetched table; it succeeds if and
\* only if some fetch succeeded, and then the file holds that snapshot.
C5_AsStated ==
    Refreshed
        => /\ Truthy(last.ret) <=> last.ok # {}
           /\ last.ok # {}
                => /\ last.ret = SnapshotOf(last.ok, last.at)
                   /\ file.exists
                   /\ file.text = JsonDump(last.ret)

\* C5, amended: as stated, but the file holds the snapshot only if the
\* write did not fail; save_to_file catches a failed write and
\* load_or_update_data returns the snapshot all the same.
C5_RefreshReturnsFetched ==
    Refreshed
        => /\ Truthy(last.ret) <=> last.ok # {}
           /\ last.ok # {}
                => /\ last.ret = SnapshotOf(last.ok, last.at)
                   /\ {last.ret.items[i][1] : i \in 1..Len(last.ret.items)}
                          = last.ok
                   /\ data = last.ret
                   /\ session.saved = "none"
                        => /\ file.exists
                           /\ file.text = JsonDump(last.ret)
                           /\ JsonLoad(file.text).ok
                           /\ JsonLoad(file.text).val = last.ret

C5_Witness ==
    /\ Refreshed
    /\ last.ok = {"EUR", "RUB"}
    /\ session.saved = "none"
    /\ file.text = JsonDump(last.ret)
    /\ Len(last.ret.items) = 2

-----------------------------------------------------------------------------
(* C6 *)

\* C6: with no cache file and every fetch failing, load_or_update_data
\* returns None, and there is still no cache file.
C6_NoFileNoFetchNoData ==
    (Refreshed /\ ~last.before.exists /\ last.ok = {})
        => /\ last.ret = None
           /\ data = None
           /\ ~file.exists
           /\ file = last.before

C6_Witness ==
    /\ Refreshed
    /\ ~last.before.exists
    /\ last.ok = {}
    /\ last.calls = FAVORITE_CURRENCIES
    /\ data = None
    /\ ~file.exists

-----------------------------------------------------------------------------
(* C7 *)

\* C7 as stated: once load_or_update_data has returned None, the list of
\* currencies is empty and no rate or conversion is given, whatever the
\* file held at the start.
C7_AsStated ==
    (pc # "start" /\ data = None)
        => /\ last.op = "display_available_currencies"
                => last.currencies = <<>>
           /\ last.op = "get_exchange_rate" => Truthy(last.ret.error)
           /\ last.op = "convert_currency" => Truthy(last.ret.error)
           /\ last.op = "get_valid_currency" => ~last.accepted

-----------------------------------------------------------------------------
(* C8 *)

\* The age of the file load_or_update_data found, in minutes
AgeAtLoad == last.at - last.before.mtime

\* C8: the freshness test is strict.  A file modified exactly 24 hours (1440
\* minutes) ago is not recent and load_or_update_data refreshes; a file
\* modified 23 hours 59 minutes ago is recent; a missing file, or one whose
\* modification time cannot be read, is not recent.
C8_FreshnessIsStrict ==
    Loaded
        => /\ (last.before.exists /\ ~last.statFault)
                => (last.recent <=> AgeAtLoad < 1440)
           /\ (last.before.exists /\ ~last.statFault /\ AgeAtLoad = 1440)
                => ~last.recent /\ last.calls = FAVORITE_CURRENCIES
           /\ (last.before.exists /\ ~last.statFault /\ AgeAtLoad = 1439)
                => last.recent
           /\ (~last.before.exists \/ last.statFault) => ~last.recent

C8_Witness ==
    /\ Loaded
    /\ last.before.exists
    /\ ~last.statFault
    /\ AgeAtLoad = 1440
    /\ ~last.recent
    /\ last.calls = FAVORITE_CURRENCIES

-----------------------------------------------------------------------------
(* C9 *)

\* load_or_update_data found a recent file that it could not read or parse
RecentUnreadable ==
    /\ Loaded
    /\ last.recent
    /\ last.readFault \/ ~JsonLoad(last.before.text).ok

\* C9: a recent file that cannot be read or parsed is a cache miss:
\* load_or_update_data goes on to fetch the watch-list, and returns the
\* fetched snapshot if some fetch succeeded and None otherwise.
C9_UnreadableFileIsCacheMiss ==
    RecentUnreadable
        => /\ last.calls = FAVORITE_CURRENCIES
           /\ last.ret = IF last.ok # {} THEN SnapshotOf(last.ok, last.at)
                                        ELSE None
           /\ data = last.ret

C9_Witness ==
    /\ RecentUnreadable
    /\ ~last.readFault
    /\ last.ok = {"GBP"}
    /\ last.ret = SnapshotOf({"GBP"}, last.at)

-----------------------------------------------------------------------------
(* The lookups as functions of the snapshot *)

\* Currency codes a caller may ask about
LookupCodes == {"USD", "EUR", "GBP", "RUB", "JPY", "XXX"}

\* A snapshot whose first base has the four targets USD, EUR, GBP, RUB
FourTargets ==
    JObj(<< <<"USD",
              JObj(<< <<"result", JStr("success")>>,
                      <<"rates",
                        JObj(<< <<"USD", JNum(100)>>, <<"EUR", JNum(90)>>,
                                <<"GBP", JNum(77)>>, <<"RUB", JNum(9500)>> >>)>>
                   >>)>> >>)

\* An entry with no rate table
NoTable == JObj(<< <<"result", JStr("success")>> >>)

\* What read_from_file() may hand to a lookup: None, every snapshot a refresh
\* can build, a snapshot of four targets, and snapshots with an entry that
\* has no rate table (second, first) or whose rate table is no dict
LookupSnapshots ==
    {None, FourTargets}
    \cup {SnapshotOf(S, 0) : S \in SUBSET Range(FAVORITE_CURRENCIES)}
    \cup {JObj(<< <<"EUR", Response("EUR", "ok", 0).json>>,
                  <<"USD", NoTable>> >>),
          JObj(<< <<"USD", NoTable>>,
                  <<"EUR", Response("EUR", "ok", 0).json>> >>),
          JObj(<< <<"USD", JObj(<< <<"rates", JNum(5)>> >>)>> >>)}

\* Amounts a caller may convert
LookupAmounts == {1, 2, 100}

InitLookup ==
    /\ file = NoFile
    /\ now = 0
    /\ pc = "lookup"
    /\ data \in LookupSnapshots
    /\ base \in LookupCodes
    /\ target \in LookupCodes
    /\ session = [refreshed |-> FALSE, saved |-> "no_save"]
    /\ last = [op |-> "init"]

\* get_exchange_rate(base, target) on the snapshot
LookupRate ==
    /\ pc = "lookup"
    /\ pc' = "looked_up"
    /\ last' = [op |-> "get_exchange_rate", base |-> base, target |-> target,
                ret |-> GetExchangeRate(data, base, target)]
    /\ UNCHANGED <<file, now, data, base, target, session>>

\* convert_currency(amount, base, target) on the snapshot
LookupConvert ==
    /\ pc = "lookup"
    /\ pc' = "looked_up"
    /\ \E amount \in LookupAmounts :
          last' = [op |-> "convert_currency", amount |-> amount,
                   base |-> base, target |-> target,
                   ret |-> ConvertCurrency(data, amount, base, target)]
    /\ UNCHANGED <<file, now, data, base, target, session>>

\* get_available_currencies() on the snapshot
LookupAvailable ==
    /\ pc = "lookup"
    /\ pc' = "looked_up"
    /\ last' = [op |-> "get_available_currencies",
                ret |-> GetAvailableCurrencies(data)]
    /\ UNCHANGED <<file, now, data, base, target, session>>

\* search_currency_interface() on the snapshot
LookupSearch ==
    /\ pc = "lookup"
    /\ pc' = "looked_up"
    /\ \E inp \in SearchInputs :
          last' = [op |-> "search_currency", input |-> inp,
                   search_term |-> StripUpper(inp),
                   available |-> GetAvailableCurrencies(data),
                   printed |-> SearchCurrencyInterface(
                                   GetAvailableCurrencies(data), inp)]
    /\ UNCHANGED <<file, now, data, base, target, session>>

\* save_to_file(snapshot, filename)
LookupPersist ==
    /\ pc = "lookup"
    /\ IsDict(data)
    /\ pc' = "persisted"
    /\ \E saveFault \in SaveFaults :
          /\ file' = SaveToFile(data, file, now, saveFault)
          /\ session' = [refreshed |-> FALSE, saved |-> saveFault]
    /\ last' = [op |-> "save_to_file"]
    /\ UNCHANGED <<now, data, base, target>>

\* read_from_file(filename), after the save
LookupLoad ==
    /\ pc = "persisted"
    /\ pc' = "looked_up"
    /\ \E readFault \in BOOLEAN :
          last' = [op |-> "read_from_file", readFault |-> readFault,
                   ret |-> ReadFromFile(file, readFault)]
    /\ UNCHANGED <<file, now, data, base, target, session>>

NextLookup ==
    \/ LookupRate
    \/ LookupConvert
    \/ LookupAvailable
    \/ LookupSearch
    \/ LookupPersist
    \/ LookupLoad

SpecLookup == InitLookup /\ [][NextLookup]_vars

-----------------------------------------------------------------------------
(* C10 *)

\* base is a key of the snapshot
BaseIsKey == IsDict(data) /\ base \in Range(Keys(data))

\* the entry of base holds a rate table
BaseHasTable ==
    /\ BaseIsKey
    /\ IsDict(Get(data, base))
    /\ "rates" \in Range(Keys(Get(data, base)))
    /\ IsDict(Get(Get(data, base), "rates"))

\* the pairs <<target, rate>> stored for base
StoredRates ==
    IF BaseHasTable THEN Range(Get(Get(data, base), "rates").items) ELSE {}

\* C10: get_exchange_rate fails with BaseNotFound exactly when base is no key
\* of the snapshot, with TargetNotFound exactly when base is a key and target
\* is no key of its rate table, and returns the stored rate otherwise; every
\* outcome is a returned pair (rate, error).
C10_RateOutcomes ==
    last.op = "get_exchange_rate"
        => /\ last.ret.error = JStr("BaseNotFound") <=> ~BaseIsKey
           /\ last.ret.error = JStr("TargetNotFound")
                <=> /\ BaseHasTable
                    /\ ~\E p \in StoredRates : p[1] = target
           /\ \A p \in StoredRates :
                p[1] = target => last.ret = [rate |-> p[2], error |-> None]
           /\ last.ret.error = None
                => \E p \in StoredRates : p = <<target, last.ret.rate>>
           /\ last.ret.error \in {None, JStr("BaseNotFound"),
                                  JStr("TargetNotFound"), JStr("LookupError")}
           /\ last.ret.error # None => last.ret.rate = None

C10_Witness ==
    /\ last.op = "get_exchange_rate"
    /\ BaseIsKey
    /\ base = "USD"
    /\ target = "GBP"
    /\ last.ret = [rate |-> None, error |-> JStr("TargetNotFound")]

-----------------------------------------------------------------------------
(* C11 *)

\* C11: on a valid snapshot, for a base that is a key and a target that is a
\* key of its rate table, the stored rate is positive and convert_currency
\* returns amount * rate; when get_exchange_rate fails, convert_currency
\* fails with the same failure and returns no amount.
C11_ConvertIsAmountTimesRate ==
    last.op = "convert_currency"
        => /\ ValidSnapshot(data)
                => \A p \in StoredRates :
                      p[1] = target
                          => /\ p[2].n > 0
                             /\ last.ret = [converted_amount |->
                                                JNum(last.amount * p[2].n),
                                            error |-> None]
           /\ ~BaseIsKey
                => last.ret = [converted_amount |-> None,
                               error |-> JStr("BaseNotFound")]
           /\ (BaseHasTable /\ ~\E p \in StoredRates : p[1] = target)
                => last.ret = [converted_amount |-> None,
                               error |-> JStr("TargetNotFound")]
           /\ last.ret.error # None => last.ret.converted_amount = None

C11_Witness ==
    /\ last.op = "convert_currency"
    /\ data = FourTargets
    /\ base = "USD"
    /\ target = "EUR"
    /\ last.amount = 100
    /\ last.ret = [converted_amount |-> JNum(9000), error |-> None]

-----------------------------------------------------------------------------
(* C12 *)

\* The operations of main() that are lookups
LookupOps ==
    {"display_available_currencies", "search_currency", "get_valid_currency",
     "get_exchange_rate", "convert_currency"}

\* C12: a lookup (list of currencies, rate, conversion, search, and the
\* check of a typed code against the list) makes no fetcher call and leaves
\* the content and the modification time of the cache file as they were;
\* fetcher calls are made by load_or_update_data and the force refresh only.
C12_LookupsHaveNoSideEffects ==
    [][ /\ last'.op \in LookupOps
            => /\ file' = file
               /\ "calls" \notin DOMAIN last'
               /\ data' = data
        /\ "calls" \in DOMAIN last'
            => last'.op \in {"load_or_update_data", "force_refresh"} ]_vars

C12_Witness ==
    /\ last.op = "convert_currency"
    /\ pc = "pause"
    /\ file.exists
    /\ last.ret.error = None
    /\ last.reverse_rate # None

-----------------------------------------------------------------------------
(* C13 *)

\* C13: after a save_to_file(S) that did not fail, read_from_file returns a
\* value equal to S: the same base keys in the same order, with the same
\* entries.
C13_RoundTrip ==
    (last.op = "read_from_file" /\ session.saved = "none" /\ ~last.readFault)
        => /\ IsDict(last.ret)
           /\ Len(last.ret.items) = Len(data.items)
           /\ \A i \in 1..Len(data.items) :
                /\ last.ret.items[i][1] = data.items[i][1]
                /\ last.ret.items[i][2] = data.items[i][2]

C13_Witness ==
    /\ last.op = "read_from_file"
    /\ session.saved = "none"
    /\ ~last.readFault
    /\ data = SnapshotOf({"USD", "EUR", "GBP", "RUB"}, 0)
    /\ last.ret = data
    /\ file.text # <<>>

-----------------------------------------------------------------------------
(* C14 *)

\* The snapshot has a first entry, and that entry holds a rate table
FirstEntryHasTable ==
    /\ IsDict(data)
    /\ Len(data.items) > 0
    /\ IsDict(data.items[1][2])
    /\ \E j \in 1..Len(data.items[1][2].items) :
          /\ data.items[1][2].items[j][1] = "rates"
          /\ IsDict(data.items[1][2].items[j][2])

\* C14: get_available_currencies returns the keys of the rate table of the
\* base inserted first, in their order, and the empty list when there is no
\* snapshot, when it is empty, and when its first entry has no rate table.
C14_AvailableIsFirstBaseTargets ==
    last.op = "get_available_currencies"
        => IF FirstEntryHasTable
           THEN \E j \in 1..Len(data.items[1][2].items) :
                   LET member == data.items[1][2].items[j] IN
                   /\ member[1] = "rates"
                   /\ Len(last.ret) = Len(member[2].items)
                   /\ \A m \in 1..Len(member[2].items) :
                         last.ret[m] = member[2].items[m][1]
           ELSE last.ret = <<>>

C14_Witness ==
    /\ last.op = "get_available_currencies"
    /\ data = SnapshotOf({"EUR", "RUB"}, 0)
    /\ last.ret = <<"EUR", "USD", "GBP">>

\* ... and a snapshot whose first entry has no rate table gives []
C14_WitnessMalformed ==
    /\ last.op = "get_available_currencies"
    /\ IsDict(data)
    /\ Len(data.items) = 2
    /\ ~FirstEntryHasTable
    /\ last.ret = <<>>

-----------------------------------------------------------------------------
(* C15 *)

\* The capital of a letter
UpperCh(ch) ==
    CASE ch = "u" -> "U"
      [] ch = "r" -> "R"
      [] OTHER -> ch

\* str contains sub, letter case apart
ContainsAnyCase(sub, str) ==
    LET a == Chars(sub)
        b == Chars(str)
    IN  \E i \in 0..(Len(b) - Len(a)) :
            \A j \in 1..Len(a) : UpperCh(a[j]) = UpperCh(b[i + j])

\* x comes before y in the order of strings, or is y
LexLeq(x, y) ==
    LET a == Chars(x)
        b == Chars(y)
    IN  \/ a = b
        \/ \E i \in 1..Len(b) :
              /\ i <= Len(a) + 1
              /\ \A j \in 1..(i - 1) : a[j] = b[j]
              /\ i <= Len(a) => Ord(a[i]) < Ord(b[i])

\* C15: the search prints exactly the available codes that contain what the
\* user typed, letter case apart, in lexicographic order; "UR" and "ur" over
\* [USD, EUR, GBP, RUB] give [EUR].
C15_SearchIsCaseInsensitiveSorted ==
    last.op = "search_currency"
        => /\ Range(last.printed)
                = {c \in Range(last.available) : ContainsAnyCase(last.input, c)}
           /\ Len(last.printed) = Cardinality(Range(last.printed))
           /\ \A i \in 1..Len(last.printed) : \A j \in i..Len(last.printed) :
                LexLeq(last.printed[i], last.printed[j])
           /\ (last.available = <<"USD", "EUR", "GBP", "RUB">>
                 /\ last.input \in {"UR", "ur"})
                => last.printed = <<"EUR">>

C15_Witness ==
    /\ last.op = "search_currency"
    /\ last.available = <<"USD", "EUR", "GBP", "RUB">>
    /\ last.input = "ur"
    /\ last.printed = <<"EUR">>

\* ... and the empty text finds every code, sorted
C15_WitnessSorted ==
    /\ last.op = "search_currency"
    /\ last.available = <<"USD", "EUR", "GBP", "RUB">>
    /\ last.input = ""
    /\ last.printed = <<"EUR", "GBP", "RUB", "USD">>

-----------------------------------------------------------------------------
(* C16 *)

\* A refresh has just run: at start-up or by the menu
RefreshRan ==
    \/ Loaded /\ session.refreshed
    \/ last.op = "force_refresh"

\* C16: one refresh calls the fetcher once per watch-list currency, in the
\* order USD, EUR, GBP, RUB, whichever of the fetches fail: no call is
\* repeated and none is skipped.
C16_EachCurrencyFetchedOnceInOrder ==
    RefreshRan => last.calls = <<"USD", "EUR", "GBP", "RUB">>

\* A refresh whose first two fetches failed
C16_Witness ==
    /\ last.op = "force_refresh"
    /\ last.ok = {"GBP"}
    /\ last.calls = <<"USD", "EUR", "GBP", "RUB">>

\* The refresh of the start-up with every fetch failing
C16_WitnessStart ==
    /\ Loaded
    /\ session.refreshed
    /\ last.ok = {}
    /\ last.calls = <<"USD", "EUR", "GBP", "RUB">>

-----------------------------------------------------------------------------
(* The refresh with its fetches completing in any order *)

\* one completion that drops what the others had stored
FetchInto_LastWins(all_data, currency, kinds, t) ==
    LET rate_data == GetCurrencyRate(Response(currency, kinds[currency], t))
    IN  IF Truthy(rate_data)
        THEN Put(JObj(<<>>), currency, rate_data)
        ELSE all_data

\* the body of the loop of update_currency_rates for one currency
FetchInto(all_data, currency, kinds, t) ==
    LET rate_data == GetCurrencyRate(Response(currency, kinds[currency], t))
    IN  IF Truthy(rate_data)
        THEN Put(all_data, currency, rate_data)
        ELSE all_data

\* all_data = {}, no fetch of the watch list has completed yet
InitParallel ==
    /\ file = NoFile
    /\ now = 0
    /\ pc = "fetching"
    /\ data = JObj(<<>>)
    /\ base = ""
    /\ target = ""
    /\ \E kinds \in AllKinds :
          session = [refreshed |-> TRUE, saved |-> "no_save", kinds |-> kinds,
                     pending |-> Range(FAVORITE_CURRENCIES)]
    /\ last = [op |-> "init"]

\* the fetch of one pending currency completes
CompleteFetch ==
    /\ pc = "fetching"
    /\ \E currency \in session.pending :
          /\ data' = FetchInto(data, currency, session.kinds, now)
          /\ session' = [session EXCEPT !.pending = @ \ {currency}]
          /\ last' = [op |-> "get_currency_rate", currency |-> currency]
    /\ UNCHANGED <<file, now, pc, base, target>>

\* load_or_update_data after update_currency_rates returned: save if all_data
SaveFetched ==
    /\ pc = "fetching"
    /\ session.pending = {}
    /\ pc' = "saved"
    /\ IF Truthy(data)
       THEN /\ file' = SaveToFile(data, file, now, "none")
            /\ session' = [session EXCEPT !.saved = "none"]
       ELSE UNCHANGED <<file, session>>
    /\ last' = [op |-> "save_to_file"]
    /\ UNCHANGED <<now, data, base, target>>

AfterAvailable ==
    /\ pc = "saved"
    /\ pc' = "answered"
    /\ last' = [op |-> "get_available_currencies",
                ret |-> GetAvailableCurrencies(ReadFromFile(file, FALSE))]
    /\ file' = FileAfterRead(file)
    /\ UNCHANGED <<now, data, base, target, session>>

AfterRate ==
    /\ pc = "saved"
    /\ pc' = "answered"
    /\ \E b \in LookupCodes, t \in LookupCodes :
          /\ base' = b
          /\ target' = t
          /\ last' = [op |-> "get_exchange_rate",
                      ret |-> GetExchangeRate(ReadFromFile(file, FALSE), b, t)]
    /\ file' = FileAfterRead(file)
    /\ UNCHANGED <<now, data, session>>

AfterConvert ==
    /\ pc = "saved"
    /\ pc' = "answered"
    /\ \E b \in LookupCodes, t \in LookupCodes, amount \in LookupAmounts :
          /\ base' = b
          /\ target' = t
          /\ last' = [op |-> "convert_currency", amount |-> amount,
                      ret |-> ConvertCurrency(ReadFromFile(file, FALSE),
                                              amount, b, t)]
    /\ file' = FileAfterRead(file)
    /\ UNCHANGED <<now, data, session>>

NextParallel ==
    \/ CompleteFetch
    \/ SaveFetched
    \/ AfterAvailable
    \/ AfterRate
    \/ AfterConvert

SpecParallel == InitParallel /\ [][NextParallel]_vars

-----------------------------------------------------------------------------
(* C17 *)

\* What load_or_update_data leaves on disk when the fetches complete in the
\* order of the watch list
SequentialFile ==
    LET u == UpdateCurrencyRates(session.kinds, now) IN
    IF Truthy(u.all_data) THEN SaveToFile(u.all_data, NoFile, now, "none")
    ELSE NoFile

SequentialSnapshot == ReadFromFile(SequentialFile, FALSE)

PersistedSnapshot == ReadFromFile(file, FALSE)

\* a and b hold the same entries, whatever the order of their keys
SameEntries(a, b) ==
    IF IsDict(a) /\ IsDict(b) THEN Range(a.items) = Range(b.items)
    ELSE a = b

RefreshDone == pc \in {"saved", "answered"}

C17_WitnessAvailable ==
    /\ pc = "answered"
    /\ last.op = "get_available_currencies"
    /\ Keys(PersistedSnapshot) = <<"EUR", "USD">>
    /\ last.ret = <<"EUR", "USD", "GBP">>
    /\ GetAvailableCurrencies(SequentialSnapshot) = <<"USD", "EUR", "RUB">>

-----------------------------------------------------------------------------
(* C18 *)

\* main() stands in get_valid_currency
AtCurrencyPrompt ==
    pc \in {"conv_base", "conv_target", "rate_base", "rate_target"}

\* C18 as stated: every currency-code prompt accepts at least one input, so
\* the action can be completed and the menu, with its quit action, is reached
\* again. get_valid_currency accepts the codes of get_available_currencies()
\* and nothing else.
C18_AsStated ==
    AtCurrencyPrompt
        => GetAvailableCurrencies(ReadFromFile(file, FALSE)) # <<>>

-----------------------------------------------------------------------------
(* C19 *)

\* C19 as stated: the force refresh reports success only if at least one
\* fetch of the watch list succeeded during it.
C19_AsStated ==
    (last.op = "force_refresh" /\ last.printed = "updated")
        => last.ok # {}

=============================================================================
